---------------------------- MODULE Spec2Model ----------------------------
(***************************************************************************)
(* Model of src/main.py, the claim-survey quality checker: the rule        *)
(* tables, classify_insurance, the four audit rules, evaluate_case and     *)
(* create_summary_sheet, and the batch loop of main().                     *)
(*                                                                         *)
(* A Python str is a sequence of one-character tokens; each Chinese        *)
(* character of the source is written as its pinyin, with a digit where    *)
(* two characters share one; the full-width punctuation marks are written  *)
(* "fw," "fw;" "fw:" "fw(" "fw)":                                          *)
(***************************************************************************)
\*  gu=U+96C7 zhu=U+4E3B lei=U+7C7B ze=U+8D23 ren=U+4EFB an=U+5B89
\*  quan=U+5168 sheng=U+751F chan=U+4EA7 jian=U+5EFA zhu2=U+7B51 shi=U+65BD
\*  gong=U+5DE5 hang=U+884C ye=U+4E1A tuan=U+56E2 yi=U+610F wai=U+5916
\*  xian=U+9669 zhong=U+91CD ji=U+75BE da=U+5927 bing=U+75C5 cai=U+8D22
\*  yi2=U+4E00 qie=U+5207 zong=U+7EFC he=U+5408 ji2=U+57FA ben=U+672C
\*  ji3=U+673A qi=U+5668 sun=U+635F huai=U+574F cheng=U+7A0B lu=U+8DEF
\*  qiao=U+6865 gong2=U+516C zhong2=U+4F17 shang=U+4F24 qing=U+60C5
\*  bu=U+90E8 wei=U+4F4D yi3=U+533B yuan=U+9662 gang=U+5C97 zhong3=U+79CD
\*  lao=U+52B3 dong=U+52A8 guan=U+5173 xi=U+7CFB fen=U+5206 bao=U+5305
\*  kao=U+8003 qin=U+52E4 zhi=U+804C zhen=U+8BCA duan=U+65AD shi2=U+65F6
\*  jian2=U+95F4 ming=U+540D cheng2=U+79F0 bian=U+7F16 ma=U+7801 ji4=U+65E2
\*  wang=U+5F80 shi3=U+53F2 biao=U+6807 de=U+7684 xing=U+578B yuan2=U+539F
\*  yin=U+56E0 wei2=U+7EF4 xiu=U+4FEE fang=U+65B9 shi4=U+5F0F wu=U+52A1
\*  zhang=U+8D26 ce=U+518C can=U+6B8B zhi2=U+503C jin=U+8FDB du=U+5EA6
\*  san=U+4E09 zhe=U+8005 gui=U+5F52 shu=U+5C5E shi5=U+8BC6 jian3=U+76D1
\*  kong=U+63A7 liao=U+7597 he2=U+548C jie=U+89E3 pei=U+8D54 chang=U+507F
\*  qi2=U+5176 ta=U+4ED6 shi6=U+5931 hou=U+540E xu=U+7EED chu=U+5904
\*  li=U+7406 cha=U+67E5 kan=U+52D8 yu=U+4E8E ri=U+65E5 qi3=U+671F
\*  di=U+5730 dian=U+70B9 zai=U+5728 xian2=U+73B0 chang2=U+573A shi7=U+89C6
\*  pin=U+9891 he3=U+6838 shi8=U+5B9E zou=U+8D70 fang2=U+8BBF dian2=U+7535
\*  hua=U+8BDD yuan3=U+8FDC dao=U+5230 chu2=U+51FA shi9=U+4E8B gu2=U+6545
\*  fa=U+53D1 yan=U+5EF6 chi=U+8FDF fei=U+80A5 wu2=U+829C hu=U+6E56
\*  beng=U+868C bu2=U+57E0 huai2=U+6DEE nan=U+5357 ma2=U+9A6C an2=U+978D
\*  shan=U+5C71 bei=U+5317 tong=U+94DC ling=U+9675 qing2=U+5E86
\*  huang=U+9EC4 chu3=U+6EC1 zhou=U+5DDE fu=U+961C yang=U+9633 su=U+5BBF
\*  lu2=U+516D bo=U+4EB3 chi2=U+6C60 xuan=U+5BA3 cheng3=U+57CE mou=U+67D0
\*  ji5=U+8BA1 bu3=U+4E0D ge=U+683C bao2=U+62A5 an3=U+6848 shang2=U+4E0A
\*  hai=U+6D77 shi10=U+5E02 tian=U+5929 wei3=U+672A tian2=U+586B xie=U+5199
\*  zhai=U+6458 yao=U+8981 han=U+542B shuo=U+8BF4 ming2=U+660E bi=U+5FC5
\*  xiang=U+9879 que=U+7F3A xin=U+5FC3 su2=U+7D20 zu=U+8DB3 lv=U+7387
\*  guo=U+8FC7 gao=U+9AD8 xu2=U+9700 ge2=U+4E2A jin2=U+4EC5 yi4=U+8BAE
\*  bu4=U+8865 chong=U+5145 yu2=U+4E0E fa2=U+4E4F du2=U+72EC li2=U+7ACB
\*  diao=U+8C03 xin2=U+4FE1 xi2=U+606F
\* A spreadsheet cell is NaN (absent), a str, or a timestamp.
EXTENDS Integers, Sequences, FiniteSets, TLC

VARIABLES
    pc,        \* control position of the running function / of main()
    row,       \* the arguments of the running function (a case record)
    ret,       \* the value the function returned
    df,        \* main(): the batch DataFrame, one record per case
    summary    \* main(): the DataFrame create_summary_sheet returned

vars == <<pc, row, ret, df, summary>>

None == [kind |-> "none"]

\***************************************************************************
\* Cells and texts
\***************************************************************************

NaN == [kind |-> "nan"]

Str(s) == [kind |-> "str", s |-> s]

\* pd.isna(x): NaN, None and NaT are null
isna(x) == x.kind \in {"nan", "nat"}

\* str(x) for a str cell
str(x) == x.s

\* Python's `keyword in text` for two strings
Contains(keyword, text) ==
    \E i \in 1..(Len(text) - Len(keyword) + 1) :
        SubSeq(text, i, i + Len(keyword) - 1) = keyword

\* The concatenation of a sequence of fragments
RECURSIVE Flatten(_)
Flatten(fs) == IF fs = <<>> THEN <<>> ELSE Head(fs) \o Flatten(Tail(fs))

\* The texts made of at most n fragments of the pool, in any order
TextsOf(pool, n) ==
    { Flatten(fs) : fs \in UNION { [1..k -> pool] : k \in 0..n } }

\* The elements of a sequence, as a set
Range(s) == { s[i] : i \in 1..Len(s) }

\***************************************************************************
\* Regular expressions, as re.search() matches them
\***************************************************************************

Lit(s) == [t |-> "lit", s |-> s]          \* a literal string
Dot(lo, hi) == [t |-> "dot", lo |-> lo, hi |-> hi]   \* .{lo,hi}
Opt(r) == [t |-> "opt", r |-> r]          \* r?
Cat(rs) == [t |-> "cat", rs |-> rs]       \* r1 r2 ... rn
Alt(rs) == [t |-> "alt", rs |-> rs]       \* r1|r2|...|rn

\* The positions at which a match of r that starts at position i may end
\* (the position after its last character).  '.' matches any character
\* but a line break.
RECURSIVE Ends(_, _, _), EndsCat(_, _, _, _)
Ends(r, text, i) ==
    CASE r.t = "lit" ->
            IF /\ i + Len(r.s) - 1 <= Len(text)
               /\ SubSeq(text, i, i + Len(r.s) - 1) = r.s
            THEN {i + Len(r.s)} ELSE {}
      [] r.t = "dot" ->
            { i + k : k \in { k \in r.lo..r.hi :
                                /\ i + k - 1 <= Len(text)
                                /\ \A m \in i..(i + k - 1) : text[m] # "\n" } }
      [] r.t = "opt" -> {i} \cup Ends(r.r, text, i)
      [] r.t = "alt" -> UNION { Ends(r.rs[k], text, i) : k \in 1..Len(r.rs) }
      [] r.t = "cat" -> EndsCat(r.rs, 1, text, {i})

EndsCat(rs, k, text, from) ==
    IF k > Len(rs) \/ from = {} THEN from
    ELSE EndsCat(rs, k + 1, text, UNION { Ends(rs[k], text, i) : i \in from })

\* re.search(pattern, text) is not None
re_search(pattern, text) ==
    \E i \in 1..(Len(text) + 1) : Ends(pattern, text, i) # {}

\***************************************************************************
\* classify_insurance
\***************************************************************************

\* INSURANCE_CATEGORIES, in insertion order: <<category, keywords>>
INSURANCE_CATEGORIES == <<
    <<<<"gu","zhu","lei">>, << <<"gu","zhu","ze","ren">> >> >>,
    <<<<"an","ze","lei">>, << <<"an","quan","sheng","chan","ze","ren">>,
                   <<"jian","zhu2","shi","gong","hang","ye","an","quan","sheng","chan","ze","ren">>,
                   <<"jian","gong","tuan","yi">> >> >>,
    <<<<"yi","wai","lei">>, << <<"yi","wai","xian">> >> >>,
    <<<<"zhong","ji","lei">>, << <<"zhong","da","ji","bing">> >> >>,
    <<<<"cai","chan","lei">>, << <<"cai","chan","yi2","qie">>, <<"cai","chan","zong","he">>,
                   <<"cai","chan","ji2","ben">>, <<"ji3","qi","sun","huai">> >> >>,
    <<<<"gong","cheng","lei">>, << <<"jian","gong","yi2","qie">>, <<"lu","qiao","gong","cheng">>,
                   <<"an","gong","yi2","qie">> >> >>,
    <<<<"gong2","zhong2","lei">>, << <<"gong2","zhong2","ze","ren">> >> >>
>>

\* for keyword in keywords: if keyword in str(insurance_type)
AnyKeywordIn(keywords, text) ==
    \E k \in 1..Len(keywords) : Contains(keywords[k], text)

\* A mutant of ClassifyFrom: the last matching category wins
RECURSIVE ClassifyFromLast(_, _)
ClassifyFromLast(c, text) ==
    IF c > Len(INSURANCE_CATEGORIES) THEN <<"qi2","ta","lei">>
    ELSE LET later == ClassifyFromLast(c + 1, text)
         IN  IF later # <<"qi2","ta","lei">> THEN later
             ELSE IF AnyKeywordIn(INSURANCE_CATEGORIES[c][2], text)
                  THEN INSURANCE_CATEGORIES[c][1] ELSE <<"qi2","ta","lei">>

\* for category, keywords in INSURANCE_CATEGORIES.items(), from the c-th on
RECURSIVE ClassifyFrom(_, _)
ClassifyFrom(c, text) ==
    IF c > Len(INSURANCE_CATEGORIES) THEN <<"qi2","ta","lei">>
    ELSE IF AnyKeywordIn(INSURANCE_CATEGORIES[c][2], text)
         THEN INSURANCE_CATEGORIES[c][1]
         ELSE ClassifyFrom(c + 1, text)

classify_insurance(insurance_type) ==
    IF isna(insurance_type) THEN <<"qi2","ta","lei">>
    ELSE ClassifyFrom(1, str(insurance_type))

\* Bound: fragments in an insuranceType text
MaxTypeFrags == 2

\* Fragments of insuranceType texts: every keyword, halves of keywords, a
\* character of no keyword
TypeFrags ==
    UNION { Range(INSURANCE_CATEGORIES[c][2]) : c \in 1..Len(INSURANCE_CATEGORIES) }
    \cup { <<"gu","zhu">>, <<"ze","ren">>, <<"xian">>, <<"jian","zhu2","shi","gong","hang","ye">> }

TypeCells == {NaN} \cup { Str(t) : t \in TextsOf(TypeFrags, MaxTypeFrags) }

InitClassify ==
    /\ pc = "classify_insurance"
    /\ row \in { [insurance_type |-> c] : c \in TypeCells }
    /\ ret = None
    /\ df = <<>>
    /\ summary = <<>>

CallClassify ==
    /\ pc = "classify_insurance"
    /\ ret' = classify_insurance(row.insurance_type)
    /\ pc' = "done"
    /\ UNCHANGED <<row, df, summary>>

NextClassify == CallClassify

SpecClassify == InitClassify /\ [][NextClassify]_vars

\* The (category, keyword) pairs in declared order
RECURSIVE PairsFrom(_, _)
PairsFrom(c, k) ==
    IF c > Len(INSURANCE_CATEGORIES) THEN <<>>
    ELSE IF k > Len(INSURANCE_CATEGORIES[c][2]) THEN PairsFrom(c + 1, 1)
         ELSE << <<INSURANCE_CATEGORIES[c][1], INSURANCE_CATEGORIES[c][2][k]>> >>
              \o PairsFrom(c, k + 1)

Pairs == PairsFrom(1, 1)

MatchingPairs(text) == { p \in 1..Len(Pairs) : Contains(Pairs[p][2], text) }

Min(S) == CHOOSE x \in S : \A y \in S : x <= y

\* C2: classify_insurance returns Other when the value is absent or holds no
\* keyword of the table, and otherwise the category of the first
\* (category, keyword) pair, in declared order, whose keyword is a substring
\* of the input.
C2_FirstMatchWins ==
    pc = "done" /\ "insurance_type" \in DOMAIN row =>
        LET v == row.insurance_type IN
        IF isna(v) \/ MatchingPairs(str(v)) = {}
        THEN ret = <<"qi2","ta","lei">>
        ELSE ret = Pairs[Min(MatchingPairs(str(v)))][1]

\* An input that holds keywords of two categories, the later one first in
\* the text, has been classified
C2_Witness ==
    /\ pc = "done" /\ "insurance_type" \in DOMAIN row
    /\ ~isna(row.insurance_type)
    /\ str(row.insurance_type) = <<"gong2","zhong2","ze","ren","gu","zhu","ze","ren">>
    /\ ret = <<"gu","zhu","lei">>

\***************************************************************************
\* check_mandatory
\***************************************************************************

\* The group (cha kan | kan cha) of two of the patterns
SurveyWord == Alt(<< Lit(<<"cha","kan">>), Lit(<<"kan","cha">>) >>)

\* MANDATORY_PATTERNS, in insertion order: <<item, compiled pattern>>
MANDATORY_PATTERNS == <<
    \* survey time
    << <<"cha","kan","shi2","jian2">>,
       Alt(<< Cat(<< Lit(<<"cha","kan">>), Dot(0, 3), Lit(<<"shi2","jian2">>) >>),
              Cat(<< Lit(<<"yu">>), Dot(0, 10), SurveyWord >>),
              Cat(<< Lit(<<"cha","kan">>), Dot(0, 5), Lit(<<"ri","qi3">>) >>) >>) >>,
    \* survey location
    << <<"cha","kan","di","dian">>,
       Alt(<< Cat(<< Lit(<<"cha","kan">>), Dot(0, 3), Lit(<<"di","dian">>) >>),
              Cat(<< Lit(<<"zai">>), Dot(0, 10), SurveyWord >>),
              Lit(<<"xian2","chang2","wei","yu">>) >>) >>,
    \* survey method
    << <<"cha","kan","fang","shi4">>,
       Alt(<< Lit(<<"xian2","chang2">>), Lit(<<"shi7","pin">>), Lit(<<"he3","shi8">>), Lit(<<"zou","fang2">>),
              Lit(<<"dian2","hua">>), Lit(<<"yuan3","cheng">>), Lit(<<"dao","chang2">>) >>) >>,
    \* incident time
    << <<"chu2","xian","shi2","jian2">>,
       Alt(<< Cat(<< Lit(<<"chu2","xian">>), Dot(0, 3), Lit(<<"shi2","jian2">>) >>),
              Cat(<< Lit(<<"shi9","gu2">>), Dot(0, 3), Lit(<<"shi2","jian2">>) >>),
              Cat(<< Lit(<<"fa","sheng">>), Dot(0, 5), Lit(<<"shi2","jian2">>) >>),
              Cat(<< Lit(<<"yu">>), Dot(0, 10),
                     Alt(<< Lit(<<"chu2","xian">>), Lit(<<"fa","sheng">>) >>) >>) >>) >>,
    \* incident location
    << <<"chu2","xian","di","dian">>,
       Alt(<< Cat(<< Lit(<<"chu2","xian">>), Dot(0, 3), Lit(<<"di","dian">>) >>),
              Cat(<< Lit(<<"shi9","gu2">>), Dot(0, 3), Lit(<<"di","dian">>) >>),
              Cat(<< Lit(<<"fa","sheng">>), Dot(0, 5), Lit(<<"di","dian">>) >>),
              Cat(<< Lit(<<"wei","yu">>), Dot(0, 10), Lit(<<"fa","sheng">>) >>) >>) >>
>>

\* list(MANDATORY_PATTERNS.keys())
MandatoryItems == [k \in 1..Len(MANDATORY_PATTERNS) |-> MANDATORY_PATTERNS[k][1]]

\* for item, pattern in MANDATORY_PATTERNS.items(), from the k-th on:
\*     if not re.search(pattern, text): missing.append(item)
RECURSIVE MissingFrom(_, _)
MissingFrom(k, text) ==
    IF k > Len(MANDATORY_PATTERNS) THEN <<>>
    ELSE (IF re_search(MANDATORY_PATTERNS[k][2], text)
          THEN <<>> ELSE << MANDATORY_PATTERNS[k][1] >>)
         \o MissingFrom(k + 1, text)

\* returns <<passed, missing>>
check_mandatory(survey_summary) ==
    IF isna(survey_summary) THEN <<FALSE, MandatoryItems>>
    ELSE LET missing == MissingFrom(1, str(survey_summary))
         IN  <<Len(missing) = 0, missing>>

\* Bound: phrases in a survey narrative given to check_mandatory
MaxPhrases == 4

\* Phrases of survey narratives: one per pattern, the location phrases of
\* everyday reports, a filler and a line break
MandatoryPhrases == {
    <<"cha","kan","shi2","jian2">>, <<"cha","kan","di","dian">>, <<"shi7","pin">>, <<"chu2","xian","shi2","jian2">>, <<"chu2","xian","di","dian">>,
    <<"xian2","chang2","wei","yu">>, <<"wei","yu","mou","di","fa","sheng">>, <<"mou">>, <<"\n">> }

\* The narrative without its i-th phrase
RemoveAt(s, i) == SubSeq(s, 1, i - 1) \o SubSeq(s, i + 1, Len(s))

InitMandatory ==
    /\ pc = "check_mandatory"
    /\ row \in { [phrases |-> ps, survey_summary |-> Str(Flatten(ps)), before |-> None] :
                   ps \in UNION { [1..k -> MandatoryPhrases] : k \in 0..MaxPhrases } }
              \cup { [phrases |-> <<>>, survey_summary |-> NaN, before |-> None] }
    /\ ret = None
    /\ df = <<>>
    /\ summary = <<>>

CallMandatory ==
    /\ pc = "check_mandatory"
    /\ ret' = check_mandatory(row.survey_summary)
    /\ pc' = "done"
    /\ UNCHANGED <<row, df, summary>>

\* The same narrative is checked again with one of its phrases removed
RemovePhrase ==
    /\ pc = "done"
    /\ row.before = None
    /\ \E i \in 1..Len(row.phrases) :
          row' = [phrases |-> RemoveAt(row.phrases, i),
                  survey_summary |-> Str(Flatten(RemoveAt(row.phrases, i))),
                  before |-> [ret |-> ret, removed |-> row.phrases[i]]]
    /\ ret' = None
    /\ pc' = "check_mandatory"
    /\ UNCHANGED <<df, summary>>

NextMandatory == CallMandatory \/ RemovePhrase

SpecMandatory == InitMandatory /\ [][NextMandatory]_vars

\* The items whose pattern the phrase satisfies by itself
TriggeredBy(phrase) ==
    { k \in 1..Len(MANDATORY_PATTERNS) : re_search(MANDATORY_PATTERNS[k][2], phrase) }

\* C8: a narrative that satisfies all five patterns passes with nothing
\* missing, and removing from it the trigger phrase of one pattern (the
\* remaining text no longer satisfies that pattern) makes exactly that one
\* item missing, and no other.
C8_RemovingOneTriggerAddsOneItem ==
    pc = "done" /\ "phrases" \in DOMAIN row /\ row.before # None
    /\ row.before.ret = <<TRUE, <<>> >> =>
        \A k \in TriggeredBy(row.before.removed) :
            ~re_search(MANDATORY_PATTERNS[k][2], str(row.survey_summary))
                => ret = <<FALSE, << MANDATORY_PATTERNS[k][1] >> >>

\* The part of C8 that the code satisfies: the missing list is exactly the
\* items whose pattern does not match, in declared order, and the rule
\* passes iff it is empty; an absent narrative misses all five.
MandatoryMissingIsUnmatched ==
    pc = "done" /\ "phrases" \in DOMAIN row =>
        /\ ret[1] = (ret[2] = <<>>)
        /\ IF isna(row.survey_summary) THEN ret[2] = MandatoryItems
           ELSE /\ \A k \in 1..Len(MANDATORY_PATTERNS) :
                      (MANDATORY_PATTERNS[k][1] \in Range(ret[2]))
                        = ~re_search(MANDATORY_PATTERNS[k][2], str(row.survey_summary))
                /\ \A a, b \in 1..Len(ret[2]) : a < b =>
                      \E i, j \in 1..Len(MandatoryItems) :
                          i < j /\ MandatoryItems[i] = ret[2][a] /\ MandatoryItems[j] = ret[2][b]

\***************************************************************************
\* check_delay
\***************************************************************************

HoursPerDay == 24

\* A datetime / pd.Timestamp: the day number and the hour of the day
Timestamp(date, hour) == [kind |-> "ts", date |-> date, hour |-> hour]

\* pd.NaT, the null timestamp (and the null Timedelta)
NaT == [kind |-> "nat"]

\* An exception raised inside the try block
Raised == [kind |-> "raise"]

DigitChars == <<"0", "1", "2", "3", "4", "5", "6", "7", "8", "9">>

IsDigit(c) == \E v \in 0..9 : DigitChars[v + 1] = c

DigitVal(c) == CHOOSE v \in 0..9 : DigitChars[v + 1] = c

\* str(n) of an int n >= 0
RECURSIVE Digits(_)
Digits(n) ==
    IF n < 10 THEN << DigitChars[n + 1] >>
    ELSE Digits(n \div 10) \o << DigitChars[(n % 10) + 1] >>

\* A Python int
PyInt(n) == [kind |-> "int", n |-> n]

\* f'{x}' of an int, or of the float nan
Format(x) ==
    IF x.kind = "nan" THEN <<"n","a","n">>
    ELSE IF x.n < 0 THEN <<"-">> \o Digits(0 - x.n) ELSE Digits(x.n)

TwoDigits(n) == << DigitChars[(n \div 10) + 1], DigitChars[(n % 10) + 1] >>

\* The texts pandas reads as the null timestamp (its nat_strings)
NatStrings == { <<"N","a","T">>, <<"n","a","t">>, <<"N","A","T">>, <<"n","a","n">>, <<"N","a","N">>, <<"N","A","N">> }

\* A text "2024-01-DD" or "2024-01-DD HH:00"
IsDateText(text) ==
    /\ Len(text) \in {10, 16}
    /\ SubSeq(text, 1, 8) = <<"2","0","2","4","-","0","1","-">>
    /\ IsDigit(text[9]) /\ IsDigit(text[10])
    /\ 10 * DigitVal(text[9]) + DigitVal(text[10]) \in 1..31
    /\ Len(text) = 16 =>
          /\ text[11] = " "
          /\ IsDigit(text[12]) /\ IsDigit(text[13])
          /\ 10 * DigitVal(text[12]) + DigitVal(text[13]) \in 0..(HoursPerDay - 1)
          /\ SubSeq(text, 14, 16) = <<":","0","0">>

\* pd.to_datetime(text) of a str: a timestamp, NaT for a null text, or a
\* ValueError for a text that is no date
to_datetime(text) ==
    IF text \in NatStrings THEN NaT
    ELSE IF IsDateText(text)
         THEN Timestamp(10 * DigitVal(text[9]) + DigitVal(text[10]),
                        IF Len(text) = 16
                        THEN 10 * DigitVal(text[12]) + DigitVal(text[13]) ELSE 0)
         ELSE Raised

\* if isinstance(x, str): pd.to_datetime(x) else: pd.Timestamp(x)
ParseTime(x) == IF x.kind = "str" THEN to_datetime(str(x)) ELSE x

\* (report_dt - accident_dt).days: the whole days of the Timedelta, rounded
\* down; nan when the Timedelta is NaT
TimedeltaDays(report_dt, accident_dt) ==
    IF report_dt.kind = "nat" \/ accident_dt.kind = "nat" THEN NaN
    ELSE PyInt(((report_dt.date - accident_dt.date) * HoursPerDay
                + (report_dt.hour - accident_dt.hour)) \div HoursPerDay)

\* A mutant of NotDelayed: a delay of exactly seven days is a delay
NotDelayedBelowSeven(delay_days) == delay_days.kind = "int" /\ delay_days.n < 7

\* delay_days <= 7 (False for nan)
NotDelayed(delay_days) == delay_days.kind = "int" /\ delay_days.n <= 7

DELAY_KEYWORDS == << <<"yan","chi","yuan2","yin">>, <<"yuan2","yin">>, <<"he3","shi8">>, <<"shu","shi8">> >>

ReasonNoSummary(delay_days) ==
    <<"bao2","an3","yan","chi">> \o Format(delay_days) \o <<"tian","fw,","cha","kan","zhai","yao","wei3","tian2","xie","yan","chi","yuan2","yin">>

ReasonNoKeyword(delay_days) ==
    <<"bao2","an3","yan","chi">> \o Format(delay_days) \o <<"tian","fw,","cha","kan","zhai","yao","wei3","bao","han","yan","chi","yuan2","yin","shuo","ming2">>

\* returns <<triggered, passed, reason>>
check_delay(accident_time, report_time, survey_summary) ==
    IF isna(accident_time) \/ isna(report_time) THEN <<FALSE, TRUE, <<>> >>
    ELSE LET accident_dt == ParseTime(accident_time)
             report_dt == ParseTime(report_time)
         IN  IF accident_dt.kind = "raise" \/ report_dt.kind = "raise"
             THEN <<FALSE, TRUE, <<>> >>          \* except Exception
             ELSE LET delay_days == TimedeltaDays(report_dt, accident_dt)
                  IN  IF NotDelayed(delay_days) THEN <<FALSE, TRUE, <<>> >>
                      ELSE IF isna(survey_summary)
                           THEN <<TRUE, FALSE, ReasonNoSummary(delay_days)>>
                      ELSE IF AnyKeywordIn(DELAY_KEYWORDS, str(survey_summary))
                           THEN <<TRUE, TRUE, <<>> >>
                      ELSE <<TRUE, FALSE, ReasonNoKeyword(delay_days)>>

\* Bound: the dates of the timestamps, 2024-01-01 .. 2024-01-MaxDate
MaxDate == 10

\* The hours of the day of the timestamps
Hours == {0, 23}

\* The text of a timestamp, as a spreadsheet holds it in a text cell
DateText(date, hour) ==
    <<"2","0","2","4","-","0","1","-">> \o TwoDigits(date)
    \o (IF hour = 0 THEN <<>> ELSE <<" ">> \o TwoDigits(hour) \o <<":","0","0">>)

\* Time cells: absent, a datetime, the text of a datetime, the text NaT, a
\* text that is no date
TimeCells ==
    {NaN}
    \cup { Timestamp(d, h) : d \in 1..MaxDate, h \in Hours }
    \cup { Str(DateText(d, h)) : d \in {1, MaxDate - 1}, h \in Hours }
    \cup { Str(<<"N","a","T">>), Str(<<"mou","ri">>) }

DelaySummaries ==
    { NaN, Str(<<"mou">>), Str(<<"yuan2">>), Str(<<"mou","he3","shi8","mou">>), Str(<<"yan","chi","yuan2","yin">>), Str(<<"shu","shi8">>) }

InitDelay ==
    /\ pc = "check_delay"
    /\ row \in [accident_time : TimeCells, report_time : TimeCells,
                survey_summary : DelaySummaries]
    /\ ret = None
    /\ df = <<>>
    /\ summary = <<>>

CallDelay ==
    /\ pc = "check_delay"
    /\ ret' = check_delay(row.accident_time, row.report_time, row.survey_summary)
    /\ pc' = "done"
    /\ UNCHANGED <<row, df, summary>>

NextDelay == CallDelay

SpecDelay == InitDelay /\ [][NextDelay]_vars

DelayDone == pc = "done" /\ "accident_time" \in DOMAIN row /\ "institution" \notin DOMAIN row

\* Both cells hold a timestamp: a datetime, or a text that reads as one
IsTime(x) == ~isna(x) /\ ParseTime(x).kind = "ts"

\* The hours from the accident to the report
ElapsedHours(a, r) ==
    (ParseTime(r).date - ParseTime(a).date) * HoursPerDay
        + (ParseTime(r).hour - ParseTime(a).hour)

\* The whole days elapsed: the greatest n with n days <= the elapsed hours
ElapsedDays(a, r) ==
    CHOOSE n \in (0 - MaxDate - 1)..(MaxDate + 1) :
        /\ n * HoursPerDay <= ElapsedHours(a, r)
        /\ (n + 1) * HoursPerDay > ElapsedHours(a, r)

HasDelayKeyword(s) ==
    ~isna(s) /\ \E k \in 1..Len(DELAY_KEYWORDS) : Contains(DELAY_KEYWORDS[k], str(s))

\* C3: for two present, parsable timestamps check_delay returns triggered
\* iff delayDays > 7 (not triggered gives passed and no reason); when
\* triggered it passes iff surveySummary is present and holds a
\* justification keyword, and otherwise fails with a non-empty reason that
\* cites delayDays.
C3_DelayThreshold ==
    DelayDone /\ IsTime(row.accident_time) /\ IsTime(row.report_time) =>
        LET d == ElapsedDays(row.accident_time, row.report_time) IN
        /\ ret[1] = (d > 7)
        /\ ~ret[1] => ret[2] /\ ret[3] = <<>>
        /\ ret[1] => /\ ret[2] = HasDelayKeyword(row.survey_summary)
                     /\ ret[2] => ret[3] = <<>>
                     /\ ~ret[2] => ret[3] # <<>> /\ Contains(Format(PyInt(d)), ret[3])

\* A delay of exactly seven days (from 01-01 23:00 to 01-08 23:00), the
\* narrative without a keyword, was not triggered
C3_Witness ==
    /\ DelayDone
    /\ row.accident_time = Timestamp(1, 23)
    /\ row.report_time = Timestamp(8, 23)
    /\ row.survey_summary = Str(<<"mou">>)
    /\ ret = <<FALSE, TRUE, <<>> >>

\* C4: if accidentTime or reportTime is absent or does not parse as a
\* timestamp, check_delay returns triggered = false, passed = true and an
\* empty reason, whatever surveySummary holds.
C4_FailOpen ==
    DelayDone /\ ~(IsTime(row.accident_time) /\ IsTime(row.report_time)) =>
        ret = <<FALSE, TRUE, <<>> >>

\* The part of C4 that the code satisfies: an absent cell, or a text that
\* pandas refuses, gives no delay signal
C4_AbsentOrRefused ==
    DelayDone
    /\ \/ isna(row.accident_time) \/ isna(row.report_time)
       \/ ParseTime(row.accident_time).kind = "raise"
       \/ ParseTime(row.report_time).kind = "raise"
    => ret = <<FALSE, TRUE, <<>> >>

\* C9: the delayDays that check_delay compares with 7 is the number of
\* calendar days from the accident date to the report date, whatever the
\* times of day: the rule triggers iff that number exceeds 7, and the
\* reason it gives cites that number.
C9_CalendarDays ==
    DelayDone /\ IsTime(row.accident_time) /\ IsTime(row.report_time) =>
        LET c == ParseTime(row.report_time).date - ParseTime(row.accident_time).date IN
        /\ ret[1] = (c > 7)
        /\ ret[1] /\ ~ret[2] => Contains(Format(PyInt(c)), ret[3])

\***************************************************************************
\* check_core_elements
\***************************************************************************

\* CORE_ELEMENTS, in insertion order: <<category, elements>>
CORE_ELEMENTS == <<
    << <<"gu","zhu","lei">>, << <<"shang","qing">>, <<"bu","wei">>, <<"yi3","yuan">>, <<"gang","wei">>, <<"gong","zhong3">>, <<"gong","shang">>, <<"lao","dong","guan","xi">>, <<"fen","bao">>, <<"kao","qin">> >> >>,
    << <<"an","ze","lei">>, << <<"shang","qing">>, <<"bu","wei">>, <<"yi3","yuan">>, <<"gang","wei">>, <<"gong","zhong3">>, <<"gong","shang">>, <<"lao","dong","guan","xi">>, <<"fen","bao">>, <<"kao","qin">> >> >>,
    << <<"yi","wai","lei">>, << <<"shang","qing">>, <<"bu","wei">>, <<"yi3","yuan">>, <<"zhi","ye">> >> >>,
    << <<"zhong","ji","lei">>, << <<"zhen","duan","shi2","jian2">>, <<"ji","bing","ming","cheng2">>, <<"ji","bing","bian","ma">>, <<"ji4","wang","bing","shi3">> >> >>,
    << <<"cai","chan","lei">>, << <<"biao","de","lei","xing">>, <<"yuan2","yin","lei","xing">>, <<"wei2","xiu","fang","shi4">>, <<"cai","wu","zhang","ce">>, <<"can","zhi2">> >> >>,
    << <<"gong","cheng","lei">>, << <<"gong","cheng","ming","cheng2">>, <<"biao","de","lei","xing">>, <<"yuan2","yin","lei","xing">>, <<"jin","du">>, <<"wei2","xiu">>, <<"san","zhe">> >> >>,
    << <<"gong2","zhong2","lei">>, << <<"gui","shu">>, <<"biao","shi5">>, <<"jian3","kong">>, <<"san","zhe">>, <<"yi3","liao">>, <<"he2","jie">>, <<"pei","chang">> >> >>,
    << <<"qi2","ta","lei">>, << <<"sun","shi6","lei","xing">>, <<"hou","xu","chu","li">> >> >>
>>

\* CORE_ELEMENTS.get(category, CORE_ELEMENTS[Other])
CoreElementsOf(category) ==
    IF \E c \in 1..Len(CORE_ELEMENTS) : CORE_ELEMENTS[c][1] = category
    THEN CORE_ELEMENTS[CHOOSE c \in 1..Len(CORE_ELEMENTS) : CORE_ELEMENTS[c][1] = category][2]
    ELSE CORE_ELEMENTS[Len(CORE_ELEMENTS)][2]

StartsWith(s, prefix) ==
    Len(prefix) <= Len(s) /\ SubSeq(s, 1, Len(prefix)) = prefix

\* The pattern compiled from
\*   element.replace(type, '.{0,2}' type '?').replace(method, '.{0,2}' method '?')
\* where type and method are the two-character words lei-xing and fang-shi4:
\* the '?' binds to the last character of the word only
RECURSIVE FuzzyParts(_)
FuzzyParts(element) ==
    IF element = <<>> THEN <<>>
    ELSE IF StartsWith(element, <<"lei","xing">>)
         THEN << Dot(0, 2), Lit(<<"lei">>), Opt(Lit(<<"xing">>)) >>
              \o FuzzyParts(SubSeq(element, 3, Len(element)))
    ELSE IF StartsWith(element, <<"fang","shi4">>)
         THEN << Dot(0, 2), Lit(<<"fang">>), Opt(Lit(<<"shi4">>)) >>
              \o FuzzyParts(SubSeq(element, 3, Len(element)))
    ELSE << Lit(<< Head(element) >>) >> \o FuzzyParts(Tail(element))

FuzzyPattern(element) == Cat(FuzzyParts(element))

\* re.search(pattern, text) or element in text
ElementMatches(element, text) ==
    re_search(FuzzyPattern(element), text) \/ Contains(element, text)

\* for element in elements, from the k-th on: the missing ones
RECURSIVE CoreMissingFrom(_, _, _)
CoreMissingFrom(elements, k, text) ==
    IF k > Len(elements) THEN <<>>
    ELSE (IF ElementMatches(elements[k], text) THEN <<>> ELSE << elements[k] >>)
         \o CoreMissingFrom(elements, k + 1, text)

\* for element in elements, from the k-th on: the matched ones
RECURSIVE CoreMatchedFrom(_, _, _)
CoreMatchedFrom(elements, k, text) ==
    IF k > Len(elements) THEN <<>>
    ELSE (IF ElementMatches(elements[k], text) THEN << elements[k] >> ELSE <<>>)
         \o CoreMatchedFrom(elements, k + 1, text)

\* min(3, len(elements))
MinRequired(elements) == IF 3 <= Len(elements) THEN 3 ELSE Len(elements)

\* A mutant of CorePassed: more than the minimum is required
CorePassedStrict(matched, elements) == Len(matched) > MinRequired(elements)

\* passed = len(matched) >= min_required
CorePassed(matched, elements) == Len(matched) >= MinRequired(elements)

\* returns <<passed, matched count, missing>>
check_core_elements(category, survey_summary) ==
    LET elements == CoreElementsOf(category) IN
    IF isna(survey_summary) THEN <<FALSE, 0, elements>>
    ELSE LET text == str(survey_summary)
             matched == CoreMatchedFrom(elements, 1, text)
             missing == CoreMissingFrom(elements, 1, text)
         IN  << CorePassed(matched, elements), Len(matched), missing >>

\* Bound: phrases in a survey narrative given to check_core_elements
MaxCorePhrases == 3

\* For an element that ends in one of the two fuzzy words: the element cut
\* after the first character of the word, and the element with three
\* characters put before the word
FuzzyVariants(e) ==
    IF Len(e) > 2 /\ SubSeq(e, Len(e) - 1, Len(e)) \in { <<"lei","xing">>, <<"fang","shi4">> }
    THEN { SubSeq(e, 1, Len(e) - 1),
           SubSeq(e, 1, Len(e) - 2) \o <<"mou","mou","mou">> \o SubSeq(e, Len(e) - 1, Len(e)) }
    ELSE {}

\* Phrases of the narratives of a category: its elements, their variants
\* and a filler
CorePhrases(category) ==
    Range(CoreElementsOf(category)) \cup { <<"mou">> }
    \cup UNION { FuzzyVariants(e) : e \in Range(CoreElementsOf(category)) }

\* The eight categories and a label that CORE_ELEMENTS does not hold
CoreCategories ==
    { CORE_ELEMENTS[c][1] : c \in 1..Len(CORE_ELEMENTS) } \cup { <<"mou","lei">> }

InitCore ==
    /\ pc = "check_core_elements"
    /\ row \in UNION {
          { [category |-> c, survey_summary |-> s] :
              s \in {NaN} \cup { Str(t) : t \in TextsOf(CorePhrases(c), MaxCorePhrases) } }
          : c \in CoreCategories }
    /\ ret = None
    /\ df = <<>>
    /\ summary = <<>>

CallCore ==
    /\ pc = "check_core_elements"
    /\ ret' = check_core_elements(row.category, row.survey_summary)
    /\ pc' = "done"
    /\ UNCHANGED <<row, df, summary>>

NextCore == CallCore

SpecCore == InitCore /\ [][NextCore]_vars

CoreDone == pc = "done" /\ "category" \in DOMAIN row

\* The declared list of the category, or the list of Other
DeclaredElements(category) ==
    LET own == { c \in 1..Len(CORE_ELEMENTS) : CORE_ELEMENTS[c][1] = category }
    IN  IF own = {} THEN CORE_ELEMENTS[8][2] ELSE CORE_ELEMENTS[CHOOSE c \in own : TRUE][2]

\* C5: check_core_elements returns passed = (matchedCount >= min(3, length
\* of the category's list)), the Other list standing in for a category
\* without one; missingElements is exactly the unmatched elements in declared
\* order, so matchedCount + |missingElements| is the length of the list; an
\* absent surveySummary gives passed = false, 0 and the full list.
C5_CoreThreshold ==
    CoreDone =>
        LET elements == DeclaredElements(row.category)
            required == IF Len(elements) < 3 THEN Len(elements) ELSE 3
        IN  IF isna(row.survey_summary)
            THEN ret = <<FALSE, 0, elements>>
            ELSE LET text == str(row.survey_summary)
                     hit == { k \in 1..Len(elements) : ElementMatches(elements[k], text) }
                 IN  /\ ret[2] = Cardinality(hit)
                     /\ ret[1] = (ret[2] >= required)
                     /\ ret[3] = SelectSeq(elements, LAMBDA e : ~ElementMatches(e, text))
                     /\ ret[2] + Len(ret[3]) = Len(elements)

\* A narrative that matches two elements of a nine-element category failed
\* with the other seven missing, in declared order
C5_Witness ==
    /\ CoreDone
    /\ row.category = <<"gu","zhu","lei">>
    /\ ~isna(row.survey_summary)
    /\ str(row.survey_summary) = <<"kao","qin","mou","shang","qing">>
    /\ ret = << FALSE, 2, << <<"bu","wei">>, <<"yi3","yuan">>, <<"gang","wei">>, <<"gong","zhong3">>, <<"gong","shang">>, <<"lao","dong","guan","xi">>, <<"fen","bao">> >> >>

\***************************************************************************
\* check_overlap
\***************************************************************************

\* Characters str.strip() removes
Whitespace == {" ", "\t", "\n"}

RECURSIVE LStrip(_)
LStrip(text) ==
    IF text # <<>> /\ Head(text) \in Whitespace THEN LStrip(Tail(text)) ELSE text

RECURSIVE RStrip(_)
RStrip(text) ==
    IF text # <<>> /\ text[Len(text)] \in Whitespace
    THEN RStrip(SubSeq(text, 1, Len(text) - 1)) ELSE text

\* text.strip()
Strip(text) == RStrip(LStrip(text))

\* A float that is the quotient of two ints
Rate(num, den) == [num |-> num, den |-> den]

\* A mutant of BelowThreshold: a rate of exactly 0.8 passes
AtMostThreshold(rate) == 10 * rate.num <= 8 * rate.den

\* overlap_rate < 0.8
BelowThreshold(rate) == 10 * rate.num < 8 * rate.den

Max(a, b) == IF a >= b THEN a ELSE b

\* returns <<passed, overlap_rate>>
check_overlap(report_summary, survey_summary) ==
    IF isna(report_summary) \/ isna(survey_summary) THEN <<TRUE, Rate(0, 1)>>
    ELSE LET report_text == Strip(str(report_summary))
             survey_text == Strip(str(survey_summary))
         IN  IF report_text = <<>> \/ survey_text = <<>> THEN <<TRUE, Rate(0, 1)>>
             ELSE LET report_chars == Range(report_text)
                      survey_chars == Range(survey_text)
                      overlap_chars == report_chars \cap survey_chars
                      max_len == Max(Cardinality(report_chars), Cardinality(survey_chars))
                      overlap_rate == IF max_len > 0
                                      THEN Rate(Cardinality(overlap_chars), max_len)
                                      ELSE Rate(0, 1)
                  IN  <<BelowThreshold(overlap_rate), overlap_rate>>

\* Bound: the distinct letters of the two summaries
MaxLetters == 5

Letters == <<"a", "b", "c", "d", "e", "f", "g", "h">>

\* The letters of S in alphabetical order
RECURSIVE LettersIn(_, _)
LettersIn(S, k) ==
    IF k > Len(Letters) THEN <<>>
    ELSE (IF Letters[k] \in S THEN << Letters[k] >> ELSE <<>>) \o LettersIn(S, k + 1)

\* Summaries: every set of letters written once, written twice, written
\* between blanks, and written with a blank inside
OverlapTexts ==
    UNION { LET t == LettersIn(S, 1)
            IN  { t, t \o t, <<" ">> \o t \o <<"\n">>, t \o <<" ">> \o t }
            : S \in SUBSET { Letters[k] : k \in 1..MaxLetters } }

OverlapCells == {NaN} \cup { Str(t) : t \in OverlapTexts }

InitOverlap ==
    /\ pc = "check_overlap"
    /\ row \in [report_summary : OverlapCells, survey_summary : OverlapCells]
    /\ ret = None
    /\ df = <<>>
    /\ summary = <<>>

CallOverlap ==
    /\ pc = "check_overlap"
    /\ ret' = check_overlap(row.report_summary, row.survey_summary)
    /\ pc' = "done"
    /\ UNCHANGED <<row, df, summary>>

NextOverlap == CallOverlap

SpecOverlap == InitOverlap /\ [][NextOverlap]_vars

OverlapDone == pc = "done" /\ "report_summary" \in DOMAIN row /\ "accident_time" \notin DOMAIN row

\* The text between its first and its last character that is no blank
Trimmed(text) ==
    LET solid == { i \in 1..Len(text) : text[i] \notin Whitespace }
    IN  IF solid = {} THEN <<>>
        ELSE SubSeq(text, CHOOSE i \in solid : \A j \in solid : i <= j,
                          CHOOSE i \in solid : \A j \in solid : i >= j)

\* C6: check_overlap returns passed with rate 0.0 when either text is absent
\* or empty after trimming; otherwise the rate is |common distinct chars| /
\* max(|distinct chars of report|, |distinct chars of survey|), it lies in
\* [0, 1], and passed holds iff the rate is below 0.8, that is iff
\* 5 * |common| < 4 * max: a rate of exactly 0.8 fails.
C6_OverlapRate ==
    OverlapDone =>
        LET r == row.report_summary
            s == row.survey_summary
        IN  IF isna(r) \/ isna(s) \/ Trimmed(str(r)) = <<>> \/ Trimmed(str(s)) = <<>>
            THEN ret[1] /\ ret[2].num = 0 /\ ret[2].den > 0
            ELSE LET R == Range(Trimmed(str(r)))
                     S == Range(Trimmed(str(s)))
                     common == Cardinality(R \cap S)
                     most == IF Cardinality(R) >= Cardinality(S)
                             THEN Cardinality(R) ELSE Cardinality(S)
                 IN  /\ ret[2].den > 0
                     /\ ret[2].num * most = common * ret[2].den
                     /\ 0 <= ret[2].num /\ ret[2].num <= ret[2].den
                     /\ ret[1] = (5 * common < 4 * most)
                     /\ (R = S) => ~ret[1] /\ ret[2].num = ret[2].den
                     /\ (R \cap S = {}) => ret[1] /\ ret[2].num = 0

\* Two summaries with four of five distinct characters in common, a rate of
\* exactly 0.8, failed
C6_Witness ==
    /\ OverlapDone
    /\ row.report_summary = Str(<<"a", "b", "c", "d", "e">>)
    /\ row.survey_summary = Str(<<" ", "a", "b", "c", "d", "\n">>)
    /\ ret = <<FALSE, Rate(4, 5)>>

\***************************************************************************
\* evaluate_case
\***************************************************************************

\* sep.join(items)
RECURSIVE Join(_, _)
Join(items, sep) ==
    IF items = <<>> THEN <<>>
    ELSE IF Len(items) = 1 THEN items[1]
    ELSE items[1] \o sep \o Join(Tail(items), sep)

\* items[:n]
Take(items, n) == SubSeq(items, 1, IF Len(items) < n THEN Len(items) ELSE n)

\* round() of the quotient num / den of two ints, ties to the even integer
RoundDiv(num, den) ==
    LET q == num \div den
        r == num % den
    IN  IF 2 * r > den \/ (2 * r = den /\ q % 2 = 1) THEN q + 1 ELSE q

\* f'{rate:.1%}'
PercentText(rate) ==
    LET tenths == RoundDiv(1000 * rate.num, rate.den)
    IN  Digits(tenths \div 10) \o <<".">> \o Digits(tenths % 10) \o <<"%">>

MandatoryReason(mandatory_missing) ==
    <<"bi","tian2","xiang","que","shi6","fw:">> \o Join(mandatory_missing, <<",", " ">>)

CoreReason(category, core_count, core_missing) ==
    <<"he3","xin","yao","su2","bu3","zu","fw(","xu2">> \o Digits(MinRequired(CoreElementsOf(category)))
    \o <<"ge2","fw,","jin2">> \o Digits(core_count) \o <<"ge2","fw)","fw,","jian","yi4","bu4","chong","fw:">>
    \o Join(Take(core_missing, 3), <<",", " ">>)

OverlapReason(overlap_rate) ==
    <<"cha","kan","zhai","yao","yu2","bao2","an3","zhai","yao","zhong","he","lv","guo","gao","fw(">> \o PercentText(overlap_rate)
    \o <<"fw)","fw,","que","fa2","du2","li2","diao","cha","xin2","xi2">>

\* A mutant of CaseReasons: the overlap rule is skipped once the core rule
\* has failed
CaseReasonsShortCircuit(category, mandatory, delay, core, overlap) ==
    (IF ~mandatory[1] THEN << MandatoryReason(mandatory[2]) >> ELSE <<>>)
    \o (IF delay[1] /\ ~delay[2] THEN << delay[3] >> ELSE <<>>)
    \o (IF ~core[1] THEN << CoreReason(category, core[2], core[3]) >>
        ELSE IF ~overlap[1] THEN << OverlapReason(overlap[2]) >> ELSE <<>>)

\* The reasons list after the four rules
CaseReasons(category, mandatory, delay, core, overlap) ==
    (IF ~mandatory[1] THEN << MandatoryReason(mandatory[2]) >> ELSE <<>>)
    \o (IF delay[1] /\ ~delay[2] THEN << delay[3] >> ELSE <<>>)
    \o (IF ~core[1] THEN << CoreReason(category, core[2], core[3]) >> ELSE <<>>)
    \o (IF ~overlap[1] THEN << OverlapReason(overlap[2]) >> ELSE <<>>)

\* returns <<verdict, reason>>
evaluate_case(r) ==
    LET category == classify_insurance(r.insurance_type)
        reasons == CaseReasons(category,
                       check_mandatory(r.survey_summary),
                       check_delay(r.accident_time, r.report_time, r.survey_summary),
                       check_core_elements(category, r.survey_summary),
                       check_overlap(r.report_summary, r.survey_summary))
    IN  IF reasons # <<>> THEN << <<"bu3","he","ge">>, Join(reasons, <<"fw;">>) >>
        ELSE << <<"he","ge">>, <<>> >>

\* Phrases of the survey narratives of whole cases, in the order they are
\* written in
CasePhrases == <<
    <<"cha","kan","shi2","jian2">>, <<"xian2","chang2","wei","yu">>, <<"chu2","xian","shi2","jian2">>, <<"chu2","xian","di","dian">>, <<"sun","shi6","lei","xing">>, <<"hou","xu","chu","li">>,
    <<"biao","de","lei","xing">>, <<"yuan2","yin","lei","xing">>, <<"can","zhi2">> >>

\* The narrative that holds the phrases numbered in S, in order
RECURSIVE PhrasesIn(_, _)
PhrasesIn(S, k) ==
    IF k > Len(CasePhrases) THEN <<>>
    ELSE (IF k \in S THEN CasePhrases[k] ELSE <<>>) \o PhrasesIn(S, k + 1)

CaseSummaries ==
    {NaN} \cup { Str(PhrasesIn(S, 1)) : S \in SUBSET (1..Len(CasePhrases)) }

\* The report summary: absent, a short text of its own, or the survey
\* summary word for word
CaseReports(survey_summary) == { NaN, Str(<<"mou","di","chu2","xian">>), survey_summary }

CaseTimes == {
    <<NaN, Timestamp(2, 0)>>,
    <<Timestamp(1, 0), Timestamp(8, 0)>>,
    <<Timestamp(1, 0), Timestamp(10, 0)>>,
    <<Str(<<"N","a","T">>), Timestamp(10, 0)>> }

CaseTypes == { NaN, Str(<<"cai","chan","yi2","qie","xian">>) }

CaseRecords ==
    UNION { { [insurance_type |-> ty, accident_time |-> tm[1], report_time |-> tm[2],
               report_summary |-> rp, survey_summary |-> sv, institution |-> Str(<<"he","fei">>)] :
                ty \in CaseTypes, tm \in CaseTimes, rp \in CaseReports(sv) }
            : sv \in CaseSummaries }

InitCase ==
    /\ pc = "evaluate_case"
    /\ row \in CaseRecords
    /\ ret = None
    /\ df = <<>>
    /\ summary = <<>>

CallCase ==
    /\ pc = "evaluate_case"
    /\ ret' = evaluate_case(row)
    /\ pc' = "done"
    /\ UNCHANGED <<row, df, summary>>

NextCase == CallCase

SpecCase == InitCase /\ [][NextCase]_vars

CaseDone == pc = "done" /\ "institution" \in DOMAIN row

\* The pieces of a text between the occurrences of a separator character
RECURSIVE Split(_, _)
Split(text, sep) ==
    IF \A i \in 1..Len(text) : text[i] # sep THEN << text >>
    ELSE LET i == CHOOSE i \in 1..Len(text) :
                      text[i] = sep /\ \A j \in 1..(i - 1) : text[j] # sep
         IN  << SubSeq(text, 1, i - 1) >> \o Split(SubSeq(text, i + 1, Len(text)), sep)

\* How the reason of each rule begins, in rule order
ReasonHeads == << <<"bi","tian2","xiang","que","shi6">>, <<"bao2","an3","yan","chi">>, <<"he3","xin","yao","su2","bu3","zu">>, <<"cha","kan","zhai","yao","yu2","bao2","an3","zhai","yao","zhong","he","lv","guo","gao">> >>

\* Which of the four rules fail on a record, in rule order
RulesFailing(r) ==
    LET delay == check_delay(r.accident_time, r.report_time, r.survey_summary)
        fails == << ~check_mandatory(r.survey_summary)[1],
                    delay[1] /\ ~delay[2],
                    ~check_core_elements(classify_insurance(r.insurance_type),
                                         r.survey_summary)[1],
                    ~check_overlap(r.report_summary, r.survey_summary)[1] >>
    IN  SelectSeq(<<1, 2, 3, 4>>, LAMBDA k : fails[k])

\* C1: evaluate_case returns the verdict qualified iff all four rules pass
\* (the delay rule fails only when triggered and not passed); when
\* unqualified the reason string holds exactly one reason per failing rule,
\* in the order mandatory, delay, core elements, overlap, and when qualified
\* it is empty.
C1_VerdictAndReasons ==
    CaseDone =>
        LET failing == RulesFailing(row) IN
        /\ ret[1] \in { <<"he","ge">>, <<"bu3","he","ge">> }
        /\ (ret[1] = <<"he","ge">>) = (failing = <<>>)
        /\ IF failing = <<>> THEN ret[2] = <<>>
           ELSE LET pieces == Split(ret[2], "fw;")
                IN  /\ Len(pieces) = Len(failing)
                    /\ \A k \in 1..Len(failing) :
                          StartsWith(pieces[k], ReasonHeads[failing[k]])

\* A case that fails the core-element and the overlap rule, and only
\* these, was evaluated
C1_Witness ==
    /\ CaseDone
    /\ RulesFailing(row) = <<3, 4>>
    /\ ret[1] = <<"bu3","he","ge">>

\***************************************************************************
\* create_summary_sheet and main
\***************************************************************************

INSTITUTION_ORDER == <<
    <<"he","fei">>, <<"wu2","hu">>, <<"beng","bu2">>, <<"huai2","nan">>, <<"ma2","an2","shan">>, <<"huai2","bei">>, <<"tong","ling">>, <<"an","qing2">>, <<"huang","shan">>,
    <<"chu3","zhou">>, <<"fu","yang">>, <<"su","zhou">>, <<"lu2","an">>, <<"bo","zhou">>, <<"chi2","zhou">>, <<"xuan","cheng3">> >>

\* INSTITUTION_ORDER.index(institution), or len(INSTITUTION_ORDER) on ValueError
sort_key(institution) ==
    IF \E k \in 1..Len(INSTITUTION_ORDER) : INSTITUTION_ORDER[k] = institution
    THEN (CHOOSE k \in 1..Len(INSTITUTION_ORDER) :
              /\ INSTITUTION_ORDER[k] = institution
              /\ \A j \in 1..(k - 1) : INSTITUTION_ORDER[j] # institution) - 1
    ELSE Len(INSTITUTION_ORDER)

\* f'{qualified / total * 100:.1f}%', and (...).round(1).astype(str) + '%'
RateText(qualified, total) ==
    LET tenths == RoundDiv(1000 * qualified, total)
    IN  Digits(tenths \div 10) \o <<".">> \o Digits(tenths % 10) \o <<"%">>

\* The keys of df.groupby(institution): a null key is dropped
GroupKeys(frame) ==
    { str(frame[i].institution) : i \in { i \in 1..Len(frame) : ~isna(frame[i].institution) } }

\* .agg(count of verdicts, number of verdicts that are qualified) and the
\* rate column, for one group
GroupRow(frame, key) ==
    LET members == { i \in 1..Len(frame) :
                        ~isna(frame[i].institution) /\ str(frame[i].institution) = key }
        total == Cardinality(members)
        qualified == Cardinality({ i \in members : frame[i].verdict = <<"he","ge">> })
    IN  [institution |-> key, total |-> total, qualified |-> qualified,
         rate |-> RateText(qualified, total)]

\* A mutant of SortedOrders: the groups are left unsorted
AnyOrders(keys) ==
    { o \in [1..Cardinality(keys) -> keys] : \A a, b \in DOMAIN o : a # b => o[a] # o[b] }

\* summary.sort_values(sort key): the orders of the groups by ascending
\* key; the sort is not stable, groups of equal key come in any order
SortedOrders(keys) ==
    { o \in [1..Cardinality(keys) -> keys] :
        /\ \A a, b \in DOMAIN o : a # b => o[a] # o[b]
        /\ \A a, b \in DOMAIN o : a < b => sort_key(o[a]) <= sort_key(o[b]) }

RECURSIVE SumOf(_, _)
SumOf(rows, column) ==
    IF rows = <<>> THEN 0 ELSE Head(rows)[column] + SumOf(Tail(rows), column)

\* The row of totals
TotalRow(rows) ==
    LET total_cases == SumOf(rows, "total")
        total_qualified == SumOf(rows, "qualified")
    IN  [institution |-> <<"he","ji5">>, total |-> total_cases, qualified |-> total_qualified,
         rate |-> IF total_cases > 0 THEN RateText(total_qualified, total_cases)
                  ELSE <<"0","%">>]

\* The tables create_summary_sheet(df) may return
create_summary_sheet(frame) ==
    { LET rows == [k \in DOMAIN o |-> GroupRow(frame, o[k])]
      IN  rows \o << TotalRow(rows) >>
      : o \in SortedOrders(GroupKeys(frame)) }

\* Bound: the case records of a batch
MaxRows == 3

\* A record that passes the four rules and one that fails them
BatchCases == {
    [insurance_type |-> NaN, accident_time |-> NaN, report_time |-> NaN,
     report_summary |-> NaN,
     survey_summary |-> Str(<<"cha","kan","shi2","jian2","xian2","chang2","wei","yu","chu2","xian","di","dian","sun","shi6","lei","xing","hou","xu","chu","li">>)],
    [insurance_type |-> Str(<<"gu","zhu","ze","ren","xian">>), accident_time |-> Timestamp(1, 0),
     report_time |-> Timestamp(10, 0), report_summary |-> Str(<<"mou">>),
     survey_summary |-> NaN] }

\* Two listed institutions (indices 0 and 2), two off the list, and the
\* empty cell
BatchInstitutions == { Str(<<"he","fei">>), Str(<<"beng","bu2">>), Str(<<"shang2","hai">>), Str(<<"he","fei","shi10">>), NaN }

BatchRows ==
    { [insurance_type |-> c.insurance_type, accident_time |-> c.accident_time,
       report_time |-> c.report_time, report_summary |-> c.report_summary,
       survey_summary |-> c.survey_summary, institution |-> i] :
        c \in BatchCases, i \in BatchInstitutions }

\* After df = pd.read_excel(input_file)
Init ==
    /\ pc = "apply"
    /\ df \in UNION { [1..n -> BatchRows] : n \in 1..MaxRows }
    /\ row = None
    /\ ret = <<>>
    /\ summary = <<>>

\* results = df.apply(evaluate_case, axis=1), one row of it
EvaluateRow ==
    /\ pc = "apply"
    /\ Len(ret) < Len(df)
    /\ row' = df[Len(ret) + 1]
    /\ ret' = Append(ret, evaluate_case(df[Len(ret) + 1]))
    /\ UNCHANGED <<pc, df, summary>>

\* df[verdict] = ..., df[reason] = ..., df[category] = ...
AssignColumns ==
    /\ pc = "apply"
    /\ Len(ret) = Len(df)
    /\ df' = [i \in DOMAIN df |->
                [insurance_type |-> df[i].insurance_type,
                 accident_time |-> df[i].accident_time,
                 report_time |-> df[i].report_time,
                 report_summary |-> df[i].report_summary,
                 survey_summary |-> df[i].survey_summary,
                 institution |-> df[i].institution,
                 verdict |-> ret[i][1],
                 reason |-> ret[i][2],
                 category |-> classify_insurance(df[i].insurance_type)]]
    /\ pc' = "summary"
    /\ UNCHANGED <<row, ret, summary>>

\* summary_df = create_summary_sheet(df)
CreateSummary ==
    /\ pc = "summary"
    /\ summary' \in create_summary_sheet(df)
    /\ pc' = "written"
    /\ UNCHANGED <<row, ret, df>>

Next == EvaluateRow \/ AssignColumns \/ CreateSummary

Spec == Init /\ [][Next]_vars

Written == pc = "written"

\* The institution rows of the summary: all rows but the last
InstitutionRows == SubSeq(summary, 1, Len(summary) - 1)

Listed(name) == \E k \in 1..Len(INSTITUTION_ORDER) : INSTITUTION_ORDER[k] = name

PriorityIndex(name) == CHOOSE k \in 1..Len(INSTITUTION_ORDER) : INSTITUTION_ORDER[k] = name

\* C7: in the table create_summary_sheet returns, the listed institutions
\* come in ascending priority index, every institution off the list comes
\* after all listed ones, and the row of totals is the last row, with
\* totalCases and qualifiedCases the sums of these columns over the
\* institution rows; qualifiedCases <= totalCases in every row.
C7_SummaryOrderAndTotals ==
    Written =>
        /\ Len(summary) >= 1
        /\ summary[Len(summary)].institution = <<"he","ji5">>
        /\ \A a, b \in 1..Len(InstitutionRows) : a < b =>
              LET x == InstitutionRows[a].institution
                  y == InstitutionRows[b].institution
              IN  /\ Listed(x) /\ Listed(y) => PriorityIndex(x) < PriorityIndex(y)
                  /\ ~Listed(x) => ~Listed(y)
        /\ summary[Len(summary)].total = SumOf(InstitutionRows, "total")
        /\ summary[Len(summary)].qualified = SumOf(InstitutionRows, "qualified")
        /\ \A k \in 1..Len(summary) : summary[k].qualified <= summary[k].total
        /\ { InstitutionRows[k].institution : k \in 1..Len(InstitutionRows) }
              = { str(df[i].institution) : i \in { i \in 1..Len(df) : ~isna(df[i].institution) } }

\* A batch whose rows name, in this order, an institution off the list, the
\* one of index 2 and the one of index 0 was summarised: index 0, index 2,
\* off the list, totals
C7_Witness ==
    /\ Written
    /\ Len(df) = 3
    /\ df[1].institution = Str(<<"shang2","hai">>)
    /\ df[2].institution = Str(<<"beng","bu2">>)
    /\ df[3].institution = Str(<<"he","fei">>)
    /\ Len(summary) = 4
    /\ summary[1].institution = <<"he","fei">>
    /\ summary[2].institution = <<"beng","bu2">>
    /\ summary[3].institution = <<"shang2","hai">>
    /\ summary[4].institution = <<"he","ji5">>

\* C10: the totalCases of the row of totals is the number of case records
\* evaluated in the batch, and its qualifiedCases the number of records
\* whose verdict is qualified, records with an absent institution included.
C10_TotalsCountEveryRecord ==
    Written =>
        /\ summary[Len(summary)].total = Len(df)
        /\ summary[Len(summary)].qualified
              = Cardinality({ i \in 1..Len(df) : df[i].verdict = <<"he","ge">> })

\* The part of C10 that the code satisfies: the totals count the records
\* whose institution cell is not empty
TotalsCountNamedRecords ==
    Written =>
        LET named == { i \in 1..Len(df) : ~isna(df[i].institution) } IN
        /\ summary[Len(summary)].total = Cardinality(named)
        /\ summary[Len(summary)].qualified
              = Cardinality({ i \in named : df[i].verdict = <<"he","ge">> })

=============================================================================
